---- MODULE Spec2Model ----
(***************************************************************************)
(* State-machine model of the SybilShield relayer's verification and badge *)
(* issuance pipeline: the in-memory verificationStore and badgeStore, the  *)
(* route handlers that read and write them, and the points at which a      *)
(* handler is suspended on an external call (identity provider, ledger     *)
(* height read, ledger submission).                                        *)
(*                                                                         *)
(* A handler runs without interruption between two awaits, so every action *)
(* below is one such run-to-completion segment of a handler.               *)
(***************************************************************************)
EXTENDS Integers, Sequences, FiniteSets, TLC

\* ------------------------------------------------------------------------
\* Bounds of the model
\* ------------------------------------------------------------------------
\* the clock runs over 0..MaxTime
MaxTime == 2
\* number of VerificationRecords the store may hold
MaxVer == 2
\* number of BadgeRecords the store may hold
MaxBadge == 2
\* number of requests the service receives in one run
MaxCalls == 3

\* config.badge.defaultValiditySeconds, in clock ticks
defaultValiditySeconds == 1

\* ledger accounts that send requests
Addresses == {"a1", "a2"}
\* request handlers that can be in flight at the same time
Requests == {"r1", "r2"}
\* the three verification endpoints
Providers == {"proof_of_humanity", "worldcoin", "liveness"}
\* datum returned by the provider (submission time, nullifier hash, client hash)
ProviderData == {"d1"}

NoAddress == "none"
NoProvider == "none"
NoHash == <<>>

\* values of the X-Wallet-Address header a client may send ("none": no header)
WalletHeaders == {"none", "a1"}

\* the limits, counted in requests per window (kept in the order strict, badge
\* below global), and the retry hints in seconds
maxRequests == 4
windowMs == 60000
strictMax == 2
strictRetryAfter == 60
badgeMax == 2
badgeRetryAfter == 3600
NoNonce == <<>>

\* outcomes of randomBytes(32)
Entropy == {"e1"}
\* config.aleo.issuerAddress
issuerAddress == "issuer"

VARIABLES
    calls,              \* requests handled so far
    now,                \* wall clock (new Date(), Date.now())
    demoMode,           \* config.demoMode, fixed at start-up
    verificationStore,  \* Map id -> VerificationRecord, in insertion order; id = position
    badgeStore,         \* Map id -> BadgeRecord, in insertion order; id = position
    addrIndex,          \* the addr:<address> keys of badgeStore: id of the aliased record, 0 = absent
    req,                \* per in-flight handler: where it is suspended and its captured locals
    response,           \* the HTTP response sent by the latest handler step
    isTest,             \* config.server.isTest, fixed at start-up
    limiter,            \* the hit counts of the rate limiters for one client IP
    crypto,             \* the latest call of a hash utility: its arguments and what it hashed
    bridge,             \* aleoIntegration: the cached snarkosAvailable and, per handler,
                        \* where its issueBadgeOnChain call is suspended
    handled             \* errorHandler: config.server.isDevelopment, the latest error
                        \* passed to it and the response it sent

vars == <<calls, now, demoMode, verificationStore, badgeStore, addrIndex, req, response,
          isTest, handled, limiter, crypto, bridge>>

\* ------------------------------------------------------------------------
\* Pure helpers
\* ------------------------------------------------------------------------

\* generateProofHash: a collision-free digest of provider|address|verificationData|timestamp
generateProofHash(provider, address, verificationData, timestamp) ==
    <<provider, address, verificationData, timestamp>>

\* variant: the lookup does not compare the address
existingVerificationAnyAddress(store, address, t) ==
    LET m == {i \in 1..Len(store) :
                 /\ store[i].status = "verified"
                 /\ store[i].expiresAt > t}
    IN IF m = {} THEN 0 ELSE CHOOSE i \in m : \A j \in m : i <= j

\* Array.from(verificationStore.values()).find(v => v.address === address &&
\*     v.status === 'verified' && v.expiresAt > new Date()): the first match in
\* insertion order, 0 when there is none
existingVerification(store, address, t) ==
    LET m == {i \in 1..Len(store) :
                 /\ store[i].address = address
                 /\ store[i].status = "verified"
                 /\ store[i].expiresAt > t}
    IN IF m = {} THEN 0 ELSE CHOOSE i \in m : \A j \in m : i <= j

\* variant: the look-up ignores the status, so any earlier record of the address blocks
existingBadgeAnyStatus(store, address) ==
    \E i \in 1..Len(store) : store[i].address = address

\* Array.from(badgeStore.values()).find(b => b.address === address && b.status === 'active')
existingBadge(store, address) ==
    \E i \in 1..Len(store) : store[i].address = address /\ store[i].status = "active"

\* generateNonce: the hex digits of the random bytes followed by 'field'
generateNonce(bytes) == <<bytes, "field">>

\* a response body without a leo_input member
NoLeoInput == [recipient |-> NoAddress, proof_hash |-> NoHash]

IdleSlot ==
    [pc |-> "idle", address |-> NoAddress, provider |-> NoProvider,
     vid |-> 0, expiresAt |-> 0, badgeId |-> 0, nonce |-> NoNonce]

\* a response: the route, the HTTP status, the error code or reported status,
\* the id the response or the rejected request speaks of (verification id for
\* the verify routes and for a rejected issuance, badge id otherwise), the
\* proof hash, the retry hint and the leo_input member it carries
NoResponse ==
    [op |-> "none", code |-> 0, kind |-> "none", id |-> 0, proofHash |-> NoHash,
     message |-> "none", retryAfter |-> 0, leoInput |-> NoLeoInput,
     provider |-> NoProvider, expiresAt |-> 0]

Respond(op, code, kind, id, hash) ==
    [op |-> op, code |-> code, kind |-> kind, id |-> id, proofHash |-> hash,
     message |-> "none", retryAfter |-> 0, leoInput |-> NoLeoInput,
     provider |-> NoProvider, expiresAt |-> 0]

\* the VerificationResponse body: the response also names a provider and an
\* expiry
VerificationResponse(op, code, kind, id, hash, provider, expiresAt) ==
    [Respond(op, code, kind, id, hash) EXCEPT !.provider = provider,
                                              !.expiresAt = expiresAt]

\* an error response whose message tells the cause apart
RespondError(op, code, kind, id, message) ==
    [op |-> op, code |-> code, kind |-> kind, id |-> id, proofHash |-> NoHash,
     message |-> message, retryAfter |-> 0, leoInput |-> NoLeoInput,
     provider |-> NoProvider, expiresAt |-> 0]

\* the 429 body the limiters' handlers send: code RATE_LIMITED, details.retryAfter
RateLimited(op, retryAfter) ==
    [op |-> op, code |-> 429, kind |-> "RATE_LIMITED", id |-> 0, proofHash |-> NoHash,
     message |-> "none", retryAfter |-> retryAfter, leoInput |-> NoLeoInput,
     provider |-> NoProvider, expiresAt |-> 0]

\* no request of the client has been counted in the current windows; admitted
\* records, per request address, the submissions the strict limiter let through
NoHits ==
    [global   |-> 0,
     badge    |-> 0,
     renew    |-> 0,
     strict   |-> [h \in WalletHeaders |-> 0],
     admitted |-> [a \in Addresses |-> 0]]

\* the message of the ValidationError thrown when the provider call fails
providerFailureMessage(provider) ==
    IF provider = "worldcoin" THEN "Failed to verify Worldcoin proof"
    ELSE "Failed to verify Proof of Humanity profile"

\* ------------------------------------------------------------------------
\* Hash utilities (utils/crypto.ts), on strings
\* ------------------------------------------------------------------------
Digits == <<"0", "1", "2", "3", "4", "5", "6", "7", "8", "9">>

\* Number.prototype.toString of a natural number
RECURSIVE toString(_)
toString(n) ==
    IF n < 10 THEN Digits[n + 1] ELSE toString(n \div 10) \o Digits[(n % 10) + 1]

\* Array.prototype.join
RECURSIVE join(_, _)
join(parts, sep) ==
    IF Len(parts) = 1 THEN parts[1] ELSE parts[1] \o sep \o join(Tail(parts), sep)

\* createHash('sha256').update(data).digest('hex'), taken as collision-free:
\* the digest names what was hashed
sha256(data) == "sha256(" \o data \o ")"

bhp256Hash(input) == sha256(input)

\* variant: the fields are joined in another order and the provider is left out
proofHashDataTimestampFirst(provider, address, verificationData, timestamp) ==
    join(<<toString(timestamp), address, verificationData>>, "|")

\* the string generateProofHash hashes
proofHashData(provider, address, verificationData, timestamp) ==
    join(<<provider, address, verificationData, toString(timestamp)>>, "|")

\* variant: the badge nonce is left out of the hashed string
nullifierInputWithoutNonce(proposalId, voterAddress, badgeNonce) ==
    toString(proposalId) \o "|" \o voterAddress

\* the string createVoteNullifier hashes
nullifierInput(proposalId, voterAddress, badgeNonce) ==
    toString(proposalId) \o "|" \o voterAddress \o "|" \o badgeNonce

createVoteNullifier(proposalId, voterAddress, badgeNonce) ==
    bhp256Hash(nullifierInput(proposalId, voterAddress, badgeNonce)) \o "field"

\* inputs the validation admits: numeric proposal ids, addresses of the form
\* aleo1[a-z0-9]{n}, nonces of hex digits followed by 'field'
MaxProposalId == 11
ProposalIds == 0..MaxProposalId
AddressChars == {"q", "7"}
AleoAddresses == {"aleo1" \o c \o d : c, d \in AddressChars}
HexChars == {"a", "1"}
HexStrings == HexChars \cup {c \o d : c, d \in HexChars}
BadgeNonces == {h \o "field" : h \in HexStrings}

\* what a verification route passes as verificationData: a submission time
\* (proof of humanity), hex digits (liveness) or whatever nullifier hash the
\* Worldcoin service returned
VerificationData == {"7", "a1", "a1field", "1|aleo1qq|a1field"}
ProviderNames == {"proof_of_humanity", "worldcoin", "liveness"}

\* no hash utility has been called
NoCall == [fn |-> "none", args |-> <<>>, input |-> "", out |-> ""]

CallCreateVoteNullifier(proposalId, voterAddress, badgeNonce) ==
    /\ crypto' = [fn    |-> "createVoteNullifier",
                  args  |-> <<proposalId, voterAddress, badgeNonce>>,
                  input |-> nullifierInput(proposalId, voterAddress, badgeNonce),
                  out   |-> createVoteNullifier(proposalId, voterAddress, badgeNonce)]
    /\ UNCHANGED <<calls, now, demoMode, verificationStore, badgeStore, addrIndex,
                   req, response, isTest, handled, limiter, bridge>>

CallGenerateProofHash(provider, address, verificationData, timestamp) ==
    /\ crypto' = [fn    |-> "generateProofHash",
                  args  |-> <<provider, address, verificationData, timestamp>>,
                  input |-> proofHashData(provider, address, verificationData, timestamp),
                  out   |-> sha256(proofHashData(provider, address, verificationData,
                                                 timestamp)) \o "field"]
    /\ UNCHANGED <<calls, now, demoMode, verificationStore, badgeStore, addrIndex,
                   req, response, isTest, handled, limiter, bridge>>

\* ------------------------------------------------------------------------
\* Ledger bridge (utils/aleoIntegration.ts)
\* ------------------------------------------------------------------------
\* `let snarkosAvailable: boolean | null = null`, and no call in progress
\* together with the environment the bridge runs in: whether a snarkos binary
\* is on the PATH of the service
\* and the ledger's side of it: the records whose issue_badge transition the
\* ledger has accepted
NotCalled == [snarkosAvailable |-> "null", at |-> [p \in Requests |-> "none"],
              cliInstalled |-> FALSE, accepted |-> {}]

\* ------------------------------------------------------------------------
\* Error handler (middleware/errorHandler.ts)
\* ------------------------------------------------------------------------
genericMessage == "An unexpected error occurred"

\* new AppError(message, statusCode, code, details) and its subclasses; details
\* are kept as the set of their keys
AppError(message, statusCode, code, details) ==
    [isAppError |-> TRUE, name |-> "Error", body |-> FALSE, message |-> message,
     statusCode |-> statusCode, code |-> code, details |-> details]

ValidationError(message, details) == AppError(message, 400, "VALIDATION_ERROR", details)
AuthenticationError == AppError("Authentication required", 401, "UNAUTHORIZED", {})
ForbiddenError == AppError("Access denied", 403, "FORBIDDEN", {})
NotFoundError(resource) == AppError(resource \o " not found", 404, "NOT_FOUND", {})
ConflictError(message) == AppError(message, 409, "CONFLICT", {})
RateLimitError == AppError("Rate limit exceeded", 429, "RATE_LIMITED", {"retryAfter"})
ExternalServiceError(service, details) ==
    AppError("External service error: " \o service, 502, service \o "_ERROR", details)

\* an error of another class: its name, whether it carries a body member (the
\* JSON parser's SyntaxError does), its message
OtherError(name, body, message) ==
    [isAppError |-> FALSE, name |-> name, body |-> body, message |-> message,
     statusCode |-> 0, code |-> "", details |-> {}]

\* the errors the handlers and middleware of the service pass on
AppErrors ==
    {ValidationError("Invalid request body", {"errors"}),
     ValidationError("Invalid Aleo address", {}),
     ValidationError("Cannot renew a revoked badge", {}),
     ValidationError("Address mismatch: verification was for a different address", {}),
     ValidationError("Verification has expired", {}),
     ValidationError("Failed to verify Proof of Humanity profile", {}),
     AuthenticationError, ForbiddenError, RateLimitError,
     NotFoundError("Verification"), NotFoundError("Badge"),
     ConflictError("Badge already exists for this address"),
     ExternalServiceError("ALEO", {}), ExternalServiceError("ALEO", {"originalMessage"}),
     AppError("Configuration error", 500, "INTERNAL_ERROR", {})}

OtherErrors ==
    {OtherError("SyntaxError", TRUE, "Unexpected token } in JSON at position 12"),
     OtherError("SyntaxError", FALSE, "Unexpected end of JSON input"),
     OtherError("ValidationError", FALSE, "value failed validation"),
     OtherError("Error", FALSE, "On-chain badge issuance failed: snarkos CLI is not installed"),
     OtherError("Error", FALSE, "Not allowed by CORS"),
     OtherError("TypeError", FALSE, "Cannot read properties of undefined"),
     OtherError("PayloadTooLargeError", FALSE, "request entity too large")}

\* every error comes with or without a stack
Errors == {[err |-> e, stack |-> st] : e \in AppErrors \cup OtherErrors, st \in BOOLEAN}

\* variant: the stack is put into the details in every environment
stackShownAlways(isDevelopment, hasStack) == hasStack

\* config.server.isDevelopment && err.stack
stackShown(isDevelopment, hasStack) == isDevelopment /\ hasStack

\* errorHandler(err, req, res, next): the status and the body it sends
errorHandler(e, isDevelopment) ==
    LET err == e.err
        jsonError == ~err.isAppError /\ err.name = "SyntaxError" /\ err.body
        named     == ~err.isAppError /\ ~jsonError /\ err.name = "ValidationError"
        statusCode == IF err.isAppError THEN err.statusCode
                      ELSE IF jsonError \/ named THEN 400 ELSE 500
        code == IF err.isAppError THEN err.code
                ELSE IF jsonError THEN "INVALID_JSON"
                ELSE IF named THEN "VALIDATION_ERROR" ELSE "INTERNAL_ERROR"
        message == IF err.isAppError \/ named THEN err.message
                   ELSE IF jsonError THEN "Invalid JSON in request body"
                   ELSE genericMessage
        details == IF err.isAppError THEN err.details ELSE {}
    IN [statusCode |-> statusCode, success |-> FALSE, error |-> message, code |-> code,
        hasDetails |-> (details # {} \/ isDevelopment),
        details |-> IF details # {} \/ isDevelopment
                    THEN details \cup (IF stackShown(isDevelopment, e.stack)
                                       THEN {"stack"} ELSE {})
                    ELSE {}]

NoError == [err |-> OtherError("none", FALSE, ""), stack |-> FALSE]

NothingHandled(isDevelopment) ==
    [isDevelopment |-> isDevelopment, err |-> NoError,
     res |-> [statusCode |-> 0, success |-> TRUE, error |-> "", code |-> "",
              hasDetails |-> FALSE, details |-> {}]]

\* an error reaches app.use(errorHandler)
HandleError(e) ==
    /\ handled' = [handled EXCEPT !.err = e,
                                  !.res = errorHandler(e, handled.isDevelopment)]
    /\ UNCHANGED <<calls, now, demoMode, verificationStore, badgeStore, addrIndex,
                   req, response, isTest, limiter, crypto, bridge>>

\* ------------------------------------------------------------------------
\* Initial state: empty stores, no handler in flight
\* ------------------------------------------------------------------------
Init ==
    /\ calls = 0
    /\ now = 0
    /\ demoMode \in BOOLEAN
    /\ verificationStore = <<>>
    /\ badgeStore = <<>>
    /\ addrIndex = [a \in Addresses |-> 0]
    /\ req = [p \in Requests |-> IdleSlot]
    /\ response = NoResponse
    /\ isTest = TRUE
    /\ limiter = NoHits
    /\ crypto = NoCall
    /\ bridge = NotCalled
    /\ handled = NothingHandled(FALSE)

\* time passes
Tick ==
    /\ UNCHANGED calls
    /\ now < MaxTime
    /\ now' = now + 1
    /\ UNCHANGED <<demoMode, verificationStore, badgeStore, addrIndex, req, response>>

\* ------------------------------------------------------------------------
\* POST /verify/{proof-of-humanity, worldcoin, liveness}
\* ------------------------------------------------------------------------

\* variant: the status is never raised to verified
NewVerificationLeftPending(address, provider, registered, datum, t) ==
    [address   |-> address,
     provider  |-> provider,
     status    |-> IF registered THEN "pending" ELSE "rejected",
     proofHash |-> generateProofHash(provider, address, datum, t),
     expiresAt |-> t + defaultValiditySeconds]

\* the record a verification handler stores once the provider check is done
NewVerification(address, provider, registered, datum, t) ==
    [address   |-> address,
     provider  |-> provider,
     status    |-> IF registered THEN "verified" ELSE "rejected",
     proofHash |-> generateProofHash(provider, address, datum, t),
     expiresAt |-> t + defaultValiditySeconds]

\* store the record under a fresh id and answer 200 (verified) or 400 (rejected)
StoreVerification(p, rec) ==
    /\ Len(verificationStore) < MaxVer
    /\ verificationStore' = Append(verificationStore, rec)
    /\ response' = VerificationResponse("submit",
                           IF rec.status = "verified" THEN 200 ELSE 400,
                           IF rec.status = "verified" THEN "OK" ELSE "REJECTED",
                           Len(verificationStore) + 1, rec.proofHash,
                           rec.provider, rec.expiresAt)

\* first segment of a verification handler: the dedupe look-up, and, for the
\* endpoints that do not suspend, the whole handler
\* the provider named by the 'Already verified' answer: the literal of the
\* endpoint that received the repeated submission
shortCircuitProvider(rec, endpoint) == endpoint

SubmitVerification(p, provider, address, validProof, datum) ==
    /\ calls < MaxCalls
    /\ calls' = calls + 1
    /\ req[p].pc = "idle"
    /\ LET ex == existingVerification(verificationStore, address, now) IN
       IF ex # 0
       THEN \* 'Already verified' short-circuit
            /\ response' = VerificationResponse("submit", 200, "ALREADY_VERIFIED", ex,
                           verificationStore[ex].proofHash,
                           shortCircuitProvider(verificationStore[ex], provider),
                           verificationStore[ex].expiresAt)
            /\ UNCHANGED <<verificationStore, req>>
       ELSE IF provider = "liveness"
       THEN \* no await in this handler
            IF validProof
            THEN /\ StoreVerification(p, NewVerification(address, provider, TRUE, datum, now))
                 /\ UNCHANGED req
            ELSE /\ response' = RespondError("submit", 400, "VALIDATION_ERROR", 0,
                                              "Invalid liveness proof")
                 /\ UNCHANGED <<verificationStore, req>>
       ELSE IF demoMode
       THEN \* the mock provider answers without leaving the event-loop turn
            /\ StoreVerification(p, NewVerification(address, provider, TRUE, datum, now))
            /\ UNCHANGED req
       ELSE \* await verifyPoH / verifyWorldcoin
            /\ req' = [req EXCEPT ![p] = [IdleSlot EXCEPT !.pc = "awaitProvider",
                           !.address = address,
                           !.provider = provider]]
            /\ UNCHANGED <<verificationStore, response>>
    /\ UNCHANGED <<now, demoMode, badgeStore, addrIndex>>

\* the provider answered: registered or not
ProviderReturn(p, registered, datum) ==
    /\ UNCHANGED calls
    /\ req[p].pc = "awaitProvider"
    /\ StoreVerification(p, NewVerification(req[p].address, req[p].provider, registered, datum, now))
    /\ req' = [req EXCEPT ![p] = IdleSlot]
    /\ UNCHANGED <<now, demoMode, badgeStore, addrIndex>>

\* variant: a failed provider call is treated as a negative answer and stored
ProviderThrowStoresRejected(p) ==
    /\ UNCHANGED calls
    /\ req[p].pc = "awaitProvider"
    /\ StoreVerification(p, NewVerification(req[p].address, req[p].provider, FALSE, "d1", now))
    /\ req' = [req EXCEPT ![p] = IdleSlot]
    /\ UNCHANGED <<now, demoMode, badgeStore, addrIndex>>

\* the provider call threw or timed out
ProviderThrow(p) ==
    /\ UNCHANGED calls
    /\ req[p].pc = "awaitProvider"
    /\ response' = RespondError("submit", 400, "VALIDATION_ERROR", 0,
                                providerFailureMessage(req[p].provider))
    /\ req' = [req EXCEPT ![p] = IdleSlot]
    /\ UNCHANGED <<now, demoMode, verificationStore, badgeStore, addrIndex>>

\* ------------------------------------------------------------------------
\* GET /verify/status/:verification_id
\* ------------------------------------------------------------------------
GetVerificationStatus(id) ==
    /\ calls < MaxCalls
    /\ calls' = calls + 1
    /\ IF id > Len(verificationStore)
       THEN /\ response' = Respond("verifyStatus", 404, "NOT_FOUND", id, NoHash)
            /\ UNCHANGED verificationStore
       ELSE LET v == verificationStore[id]
                st == IF v.expiresAt < now THEN "expired" ELSE v.status
            IN /\ verificationStore' = [verificationStore EXCEPT ![id].status = st]
               /\ response' = VerificationResponse("verifyStatus", 200, st, id, NoHash,
                                                   v.provider, v.expiresAt)
    /\ UNCHANGED <<now, demoMode, badgeStore, addrIndex, req>>

\* ------------------------------------------------------------------------
\* POST /badge/request-issuance
\* ------------------------------------------------------------------------

\* variant: the verification is looked up before the badge look-up
issuanceCheckVerificationFirst(badges, verifications, vid, address, t) ==
    IF vid > Len(verifications) THEN 404
    ELSE IF existingBadge(badges, address) THEN 409
    ELSE IF verifications[vid].status # "verified" THEN 400
    ELSE IF verifications[vid].address # address THEN 400
    ELSE IF verifications[vid].expiresAt < t THEN 400
    ELSE 0

\* variant: an unknown verification is reported as a validation error
issuanceCheckUnknownAsInvalid(badges, verifications, vid, address, t) ==
    IF existingBadge(badges, address) THEN 409
    ELSE IF vid > Len(verifications) THEN 400
    ELSE IF verifications[vid].status # "verified" THEN 400
    ELSE IF verifications[vid].address # address THEN 400
    ELSE IF verifications[vid].expiresAt < t THEN 400
    ELSE 0

\* variant: the expiry of the verification is not checked
issuanceCheckNoExpiry(badges, verifications, vid, address, t) ==
    IF existingBadge(badges, address) THEN 409
    ELSE IF vid > Len(verifications) THEN 404
    ELSE IF verifications[vid].status # "verified" THEN 400
    ELSE IF verifications[vid].address # address THEN 400
    ELSE 0

\* the checks of the handler, in the order the handler makes them: the code of
\* the error thrown, or 0 when every check passes
issuanceCheck(badges, verifications, vid, address, t) ==
    IF existingBadge(badges, address) THEN 409
    ELSE IF vid > Len(verifications) THEN 404
    ELSE IF verifications[vid].status # "verified" THEN 400
    ELSE IF verifications[vid].address # address THEN 400
    ELSE IF verifications[vid].expiresAt < t THEN 400
    ELSE 0

errorKind(code) ==
    CASE code = 400 -> "VALIDATION_ERROR"
      [] code = 404 -> "NOT_FOUND"
      [] code = 409 -> "CONFLICT"
      [] OTHER      -> "INTERNAL_ERROR"

\* first segment: the checks, then `await calculateExpiryBlock(365)`
RequestIssuance(p, vid, address) ==
    /\ calls < MaxCalls
    /\ calls' = calls + 1
    /\ req[p].pc = "idle"
    /\ LET code == issuanceCheck(badgeStore, verificationStore, vid, address, now) IN
       IF code # 0
       THEN /\ response' = Respond("requestIssuance", code, errorKind(code), vid, NoHash)
            /\ UNCHANGED req
       ELSE \* the nonce is drawn and expiresAt computed before the height read
            /\ \E bytes \in Entropy :
                  req' = [req EXCEPT ![p] =
                             [IdleSlot EXCEPT !.pc = "awaitHeight",
                                              !.address = address,
                                              !.vid = vid,
                                              !.nonce = generateNonce(bytes),
                                              !.expiresAt = now + defaultValiditySeconds]]
            /\ UNCHANGED response
    /\ UNCHANGED <<now, demoMode, verificationStore, badgeStore, addrIndex>>

\* variant: the nonce is derived from the owner's address
NewBadgeNonceFromAddress(id, address, nonce, proofHash, expiresAt, status) ==
    [id            |-> id,
     address       |-> address,
     issuer        |-> issuerAddress,
     nonce         |-> <<address, "field">>,
     proofHash     |-> proofHash,
     expiresAt     |-> expiresAt,
     status        |-> status,
     transactionId |-> "none"]

\* the BadgeRecord written at `badgeStore.set(badgeId, badgeRecord)`
NewBadge(id, address, nonce, proofHash, expiresAt, status) ==
    [id            |-> id,
     address       |-> address,
     issuer        |-> issuerAddress,
     nonce         |-> nonce,
     proofHash     |-> proofHash,
     expiresAt     |-> expiresAt,
     status        |-> status,
     transactionId |-> "none"]

\* second segment: the height read returned (getCurrentBlockHeight never throws);
\* the record is written as pending under its id and under addr:<address>, then
\* the handler either finishes at once (demo mode) or awaits issueBadgeOnChain
HeightReturn(p) ==
    /\ UNCHANGED calls
    /\ req[p].pc = "awaitHeight"
    /\ Len(badgeStore) < MaxBadge
    /\ LET badgeId == Len(badgeStore) + 1
           address == req[p].address
           hash    == verificationStore[req[p].vid].proofHash
       IN /\ addrIndex' = [addrIndex EXCEPT ![address] = badgeId]
          /\ IF demoMode
             THEN /\ badgeStore' = Append(badgeStore,
                           NewBadge(badgeId, address, req[p].nonce, hash,
                                    req[p].expiresAt, "active"))
                  /\ response' = Respond("requestIssuance", 201, "OK", badgeId, NoHash)
                  /\ req' = [req EXCEPT ![p] = IdleSlot]
             ELSE /\ badgeStore' = Append(badgeStore,
                           NewBadge(badgeId, address, req[p].nonce, hash,
                                    req[p].expiresAt, "pending"))
                  /\ req' = [req EXCEPT ![p].pc = "awaitLedger", ![p].badgeId = badgeId]
                  /\ UNCHANGED response
    /\ UNCHANGED <<now, demoMode, verificationStore>>

\* variant: the failure branch leaves the record as it was written
statusOnLedgerFailureStuck == "pending"

\* status written by the handler when issueBadgeOnChain reports no success
statusOnLedgerFailure == "failed"

\* third segment, issueResult.success: the record becomes active
LedgerSuccess(p) ==
    /\ UNCHANGED calls
    /\ req[p].pc = "awaitLedger"
    /\ badgeStore' = [badgeStore EXCEPT ![req[p].badgeId].status = "active"]
    /\ addrIndex' = [addrIndex EXCEPT ![req[p].address] = req[p].badgeId]
    /\ response' = Respond("requestIssuance", 201, "OK", req[p].badgeId, NoHash)
    /\ req' = [req EXCEPT ![p] = IdleSlot]
    /\ UNCHANGED <<now, demoMode, verificationStore>>

\* third segment, !issueResult.success (CLI missing, rejected, timed out, no
\* transaction id in the output): the record becomes failed and a plain Error
\* is thrown, which the error handler reports as 500 INTERNAL_ERROR
LedgerFail(p) ==
    /\ UNCHANGED calls
    /\ req[p].pc = "awaitLedger"
    /\ badgeStore' = [badgeStore EXCEPT ![req[p].badgeId].status = statusOnLedgerFailure]
    /\ addrIndex' = [addrIndex EXCEPT ![req[p].address] = req[p].badgeId]
    /\ response' = Respond("requestIssuance", 500, errorKind(500), req[p].badgeId,
                           NoHash)
    /\ req' = [req EXCEPT ![p] = IdleSlot]
    /\ UNCHANGED <<now, demoMode, verificationStore>>

\* ------------------------------------------------------------------------
\* GET /badge/status/:address
\* ------------------------------------------------------------------------
GetBadgeStatus(address) ==
    /\ calls < MaxCalls
    /\ calls' = calls + 1
    /\ IF addrIndex[address] = 0
       THEN /\ response' = Respond("badgeStatus", 200, "none", 0, NoHash)
            /\ UNCHANGED badgeStore
       ELSE LET id == addrIndex[address]
                b  == badgeStore[id]
                st == IF b.expiresAt < now /\ b.status = "active" THEN "expired" ELSE b.status
            IN /\ badgeStore' = [badgeStore EXCEPT ![id].status = st]
               /\ response' = Respond("badgeStatus", 200, st, id, NoHash)
    /\ UNCHANGED <<now, demoMode, verificationStore, addrIndex, req>>

\* ------------------------------------------------------------------------
\* POST /badge/renew
\* ------------------------------------------------------------------------
\* the checks of the handler, in its order: 0 = pass, else the status code
renewCheckIgnoresRevoked(badges, index, address) ==
    IF index[address] = 0 THEN 404 ELSE 0

renewCheck(badges, index, address) ==
    IF index[address] = 0 THEN 404
    ELSE IF badges[index[address]].status = "revoked" THEN 400
    ELSE 0

\* the two assignments to the stored record
renewedWithFreshNonce(rec, t) ==
    [rec EXCEPT !.expiresAt = t + defaultValiditySeconds,
                !.status = "active",
                !.nonce = NoNonce]

renewed(rec, t) ==
    [rec EXCEPT !.expiresAt = t + defaultValiditySeconds,
                !.status = "active"]

Renew(address) ==
    /\ calls < MaxCalls
    /\ calls' = calls + 1
    /\ LET code == renewCheck(badgeStore, addrIndex, address)
           id   == addrIndex[address] IN
       IF code # 0
       THEN /\ response' = Respond("renew", code, errorKind(code), id, NoHash)
            /\ UNCHANGED badgeStore
       ELSE /\ badgeStore' = [badgeStore EXCEPT ![id] = renewed(badgeStore[id], now)]
            /\ response' = Respond("renew", 200, "OK", id, NoHash)
    /\ UNCHANGED <<now, demoMode, verificationStore, addrIndex, req>>

\* ------------------------------------------------------------------------
\* Administrative revocation: active -> revoked, decided outside the relayer
\* ------------------------------------------------------------------------
Revoke(address) ==
    /\ UNCHANGED calls
    /\ addrIndex[address] # 0
    /\ badgeStore[addrIndex[address]].status = "active"
    /\ badgeStore' = [badgeStore EXCEPT ![addrIndex[address]].status = "revoked"]
    /\ UNCHANGED <<now, demoMode, verificationStore, addrIndex, req, response>>

\* ------------------------------------------------------------------------
\* issueBadgeOnChain, step by step (utils/aleoIntegration.ts)
\* ------------------------------------------------------------------------
\* isSnarkosAvailable(): where a call made now suspends.  With a cached value
\* no process is started for the check.
isSnarkosAvailable ==
    CASE bridge.snarkosAvailable = "null"  -> "version"
      [] bridge.snarkosAvailable = "true"  -> "exec"

\* the operator installs or removes the snarkos binary
SetCliInstalled(b) ==
    /\ bridge.cliInstalled # b
    /\ bridge' = [bridge EXCEPT !.cliInstalled = b]
    /\ UNCHANGED <<calls, now, demoMode, verificationStore, badgeStore, addrIndex,
                   req, response, isTest, handled, limiter, crypto>>

\* second segment of the issuance handler, up to the await inside the bridge
CallIssueBadgeOnChain(p) ==
    /\ demoMode \/ bridge.snarkosAvailable # "false"
    /\ HeightReturn(p)
    /\ bridge' = [bridge EXCEPT !.at[p] = IF demoMode THEN "none" ELSE isSnarkosAvailable]
    /\ UNCHANGED <<isTest, handled, limiter, crypto>>

\* second segment of the issuance handler with a cached false: executeAleoCli
\* returns its failure result without starting a process, and the handler's
\* failure branch runs before the turn ends
RefusedFromCache(p) ==
    /\ ~demoMode
    /\ bridge.snarkosAvailable = "false"
    /\ UNCHANGED calls
    /\ req[p].pc = "awaitHeight"
    /\ Len(badgeStore) < MaxBadge
    /\ LET badgeId == Len(badgeStore) + 1
           address == req[p].address
           hash    == verificationStore[req[p].vid].proofHash
       IN /\ addrIndex' = [addrIndex EXCEPT ![address] = badgeId]
          /\ badgeStore' = Append(badgeStore,
                   NewBadge(badgeId, address, req[p].nonce, hash,
                            req[p].expiresAt, statusOnLedgerFailure))
          /\ response' = Respond("requestIssuance", 500, errorKind(500), badgeId, NoHash)
          /\ req' = [req EXCEPT ![p] = IdleSlot]
    /\ UNCHANGED <<now, demoMode, verificationStore, isTest, handled, limiter, crypto, bridge>>

\* `snarkos --version` ends: the result is cached; a missing binary or the
\* 5 s timeout is the catch branch
VersionCheckReturn(p, timedOut) ==
    /\ bridge.at[p] = "version"
    /\ IF bridge.cliInstalled /\ ~timedOut
       THEN /\ bridge' = [bridge EXCEPT !.snarkosAvailable = "true", !.at[p] = "exec"]
            /\ UNCHANGED <<calls, now, demoMode, verificationStore, badgeStore,
                           addrIndex, req, response>>
       ELSE /\ bridge' = [bridge EXCEPT !.snarkosAvailable = "false", !.at[p] = "none"]
            /\ LedgerFail(p)
    /\ UNCHANGED <<isTest, handled, limiter, crypto>>

\* the execute command ends: success needs exit status 0 and a transaction id
\* in the output.  Whether the ledger accepted the broadcast transition is the
\* ledger's matter: it did when the CLI printed the id of the transaction, and
\* it may have when the CLI was killed by the 3 minute timeout, exited with an
\* error after broadcasting, or printed no id the pattern at1[a-z0-9]{58} finds
CliReturn(p, exited0, hasTransactionId, ledgerAccepted) ==
    /\ bridge.at[p] = "exec"
    /\ exited0 => bridge.cliInstalled
    /\ ledgerAccepted => bridge.cliInstalled
    /\ (exited0 /\ hasTransactionId) => ledgerAccepted
    /\ IF exited0 /\ hasTransactionId THEN LedgerSuccess(p) ELSE LedgerFail(p)
    /\ bridge' = [bridge EXCEPT !.at[p] = "none",
                                !.accepted = IF ledgerAccepted
                                             THEN @ \cup {req[p].badgeId} ELSE @]
    /\ UNCHANGED <<isTest, handled, limiter, crypto>>

\* ------------------------------------------------------------------------
\* Signature middleware (middleware/auth.ts, utils/crypto.ts)
\* ------------------------------------------------------------------------
minSignatureLength == 64

\* X-Wallet-Address as sent: absent, not an Aleo address, or an address
WalletValues == {NoAddress, "0xabc"} \cup Addresses

\* X-Signature as sent: absent, a short string, a string of 64 characters
SignatureValues ==
    {"", "sig", "00000000000000000000000000000000ffffffffffffffffffffffffffffffff"}

verifySignature(address, message, signature) == Len(signature) >= minSignatureLength

\* variant: the signature is required but never verified
requireSignatureUnverified(walletAddress, signature) ==
    IF walletAddress = NoAddress THEN 401
    ELSE IF signature = "" THEN 401
    ELSE IF walletAddress \notin Addresses THEN 400
    ELSE 0

\* requireSignature: 0 when next() is called, else the status it answers with
requireSignature(walletAddress, signature) ==
    IF walletAddress = NoAddress THEN 401
    ELSE IF signature = "" THEN 401
    ELSE IF walletAddress \notin Addresses THEN 400
    ELSE IF ~verifySignature(walletAddress, "body", signature) THEN 401
    ELSE 0

authErrorKind(walletAddress, signature) ==
    IF walletAddress = NoAddress \/ signature = "" THEN "UNAUTHORIZED"
    ELSE IF walletAddress \notin Addresses THEN "INVALID_ADDRESS"
    ELSE "SIGNATURE_MISMATCH"

\* demoModeBypass: 0 when the handler runs
demoModeBypass(walletAddress, signature) ==
    IF demoMode THEN 0 ELSE requireSignature(walletAddress, signature)

Unauthenticated(op, walletAddress, signature) ==
    /\ response' = RespondError(op, requireSignature(walletAddress, signature),
                                authErrorKind(walletAddress, signature), 0, "none")
    /\ UNCHANGED <<calls, now, demoMode, verificationStore, badgeStore, addrIndex, req>>

\* POST /badge/request-issuance with its headers: demoModeBypass, then the handler
SignedRequestIssuance(walletAddress, signature, p, vid, address) ==
    /\ IF demoModeBypass(walletAddress, signature) # 0
       THEN Unauthenticated("requestIssuance", walletAddress, signature)
       ELSE RequestIssuance(p, vid, address)
    /\ UNCHANGED <<isTest, handled, limiter, crypto, bridge>>

\* POST /badge/renew with its headers: demoModeBypass, then the handler
SignedRenew(walletAddress, signature, address) ==
    /\ IF demoModeBypass(walletAddress, signature) # 0
       THEN Unauthenticated("renew", walletAddress, signature)
       ELSE Renew(address)
    /\ UNCHANGED <<isTest, handled, limiter, crypto, bridge>>

\* ------------------------------------------------------------------------
\* Rate limiting (express-rate-limit): a limiter that is not skipped counts the
\* request under its key, answers 429 when the count exceeds max and calls the
\* next middleware otherwise
\* ------------------------------------------------------------------------
\* one more hit; counts above the limit all behave alike
countHit(n, max) == IF n > max THEN n ELSE n + 1

\* Math.ceil(windowMs / 1000)
globalRetryAfter == (windowMs + 999) \div 1000

\* app.use(createRateLimiter()): every route, keyed by the client IP
globalCounted(lim) ==
    IF isTest THEN lim ELSE [lim EXCEPT !.global = countHit(@, maxRequests)]

globalRejects(lim) == ~isTest /\ lim.global > maxRequests

\* verificationRouter.use(createStrictRateLimiter()): keyed by the client IP
\* and the X-Wallet-Address header
strictCounted(lim, header) ==
    IF isTest THEN lim ELSE [lim EXCEPT !.strict[header] = countHit(@, strictMax)]

strictRejects(lim, header) == ~isTest /\ lim.strict[header] > strictMax

\* createBadgeRateLimiter() on the request-issuance route: keyed by the client IP
badgeSkipped == isTest \/ demoMode

badgeCounted(lim) ==
    IF badgeSkipped THEN lim ELSE [lim EXCEPT !.badge = countHit(@, badgeMax)]

badgeRejectsLate(lim) == ~badgeSkipped /\ lim.badge > badgeMax + 1

badgeRejects(lim) == ~badgeSkipped /\ lim.badge > badgeMax

\* a request the limiters answer themselves: no handler runs
Rejected(op, lim, retryAfter) ==
    /\ limiter' = lim
    /\ response' = RateLimited(op, retryAfter)
    /\ UNCHANGED <<calls, now, demoMode, verificationStore, badgeStore, addrIndex,
                   req, isTest, handled, crypto, bridge>>

\* POST /verify/* as the client sends it: global limiter, strict limiter, handler
LimitedSubmit(header, p, provider, address, validProof, datum) ==
    LET g == globalCounted(limiter)
        s == strictCounted(g, header) IN
    IF globalRejects(g) THEN Rejected("submit", g, globalRetryAfter)
    ELSE IF strictRejects(s, header) THEN Rejected("submit", s, strictRetryAfter)
    ELSE /\ SubmitVerification(p, provider, address, validProof, datum)
         /\ limiter' = [s EXCEPT !.admitted[address] = @ + 1]
         /\ UNCHANGED <<isTest, handled, crypto, bridge>>

\* POST /badge/request-issuance as the client sends it: global limiter, badge
\* limiter, handler
LimitedRequestIssuance(p, vid, address) ==
    LET g == globalCounted(limiter)
        b == badgeCounted(g) IN
    IF globalRejects(g) THEN Rejected("requestIssuance", g, globalRetryAfter)
    ELSE IF badgeRejects(b) THEN Rejected("requestIssuance", b, badgeRetryAfter)
    ELSE /\ RequestIssuance(p, vid, address)
         /\ limiter' = b
         /\ UNCHANGED <<isTest, handled, crypto, bridge>>

\* ------------------------------------------------------------------------
\* Specification
\* ------------------------------------------------------------------------
Next ==
    \/ Tick /\ UNCHANGED <<isTest, handled, limiter, crypto, bridge>>
    \/ /\ \E p \in Requests, provider \in Providers, a \in Addresses,
                              validProof \in BOOLEAN, d \in ProviderData :
             SubmitVerification(p, provider, a, validProof, d)
       /\ UNCHANGED <<isTest, handled, limiter, crypto, bridge>>
    \/ /\ \E p \in Requests, registered \in BOOLEAN, d \in ProviderData :
             ProviderReturn(p, registered, d)
       /\ UNCHANGED <<isTest, handled, limiter, crypto, bridge>>
    \/ (\E p \in Requests : ProviderThrow(p)) /\ UNCHANGED <<isTest, handled, limiter, crypto, bridge>>
    \/ (\E id \in 1..MaxVer : GetVerificationStatus(id)) /\ UNCHANGED <<isTest, handled, limiter, crypto, bridge>>
    \/ /\ \E p \in Requests, vid \in 1..MaxVer, a \in Addresses : RequestIssuance(p, vid, a)
       /\ UNCHANGED <<isTest, handled, limiter, crypto, bridge>>
    \/ (\E p \in Requests : HeightReturn(p)) /\ UNCHANGED <<isTest, handled, limiter, crypto, bridge>>
    \/ (\E p \in Requests : LedgerSuccess(p)) /\ UNCHANGED <<isTest, handled, limiter, crypto, bridge>>
    \/ (\E p \in Requests : LedgerFail(p)) /\ UNCHANGED <<isTest, handled, limiter, crypto, bridge>>
    \/ (\E a \in Addresses : GetBadgeStatus(a)) /\ UNCHANGED <<isTest, handled, limiter, crypto, bridge>>
    \/ (\E a \in Addresses : Renew(a)) /\ UNCHANGED <<isTest, handled, limiter, crypto, bridge>>
    \/ (\E a \in Addresses : Revoke(a)) /\ UNCHANGED <<isTest, handled, limiter, crypto, bridge>>

Spec == Init /\ [][Next]_vars

\* every ledger submission eventually returns (executeAleoCli runs the CLI with
\* a 3 minute timeout and turns every failure into a result)
FairSpec ==
    /\ Spec
    /\ \A p \in Requests :
          WF_vars((LedgerSuccess(p) \/ LedgerFail(p)) /\ UNCHANGED <<isTest, handled, limiter, crypto, bridge>>)

\* createBadgeRateLimiter() on the renew route: an instance of its own, with
\* its own counts
renewCounted(lim) ==
    IF badgeSkipped THEN lim ELSE [lim EXCEPT !.renew = countHit(@, badgeMax)]

renewRejects(lim) == ~badgeSkipped /\ lim.renew > badgeMax

\* POST /badge/request-issuance as the client sends it, with its headers:
\* global limiter, badge limiter, demoModeBypass, handler
GuardedRequestIssuance(walletAddress, signature, p, vid, address) ==
    LET g == globalCounted(limiter)
        b == badgeCounted(g) IN
    IF globalRejects(g) THEN Rejected("requestIssuance", g, globalRetryAfter)
    ELSE IF badgeRejects(b) THEN Rejected("requestIssuance", b, badgeRetryAfter)
    ELSE /\ limiter' = b
         /\ IF demoModeBypass(walletAddress, signature) # 0
            THEN Unauthenticated("requestIssuance", walletAddress, signature)
            ELSE RequestIssuance(p, vid, address)
         /\ UNCHANGED <<isTest, handled, crypto, bridge>>

\* POST /badge/renew as the client sends it, with its headers
GuardedRenew(walletAddress, signature, address) ==
    LET g == globalCounted(limiter)
        b == renewCounted(g) IN
    IF globalRejects(g) THEN Rejected("renew", g, globalRetryAfter)
    ELSE IF renewRejects(b) THEN Rejected("renew", b, badgeRetryAfter)
    ELSE /\ limiter' = b
         /\ IF demoModeBypass(walletAddress, signature) # 0
            THEN Unauthenticated("renew", walletAddress, signature)
            ELSE Renew(address)
         /\ UNCHANGED <<isTest, handled, crypto, bridge>>

\* the service outside the test environment, as one client drives it within
\* one window of each limiter
RLInit ==
    /\ calls = 0
    /\ now = 0
    /\ demoMode \in BOOLEAN
    /\ verificationStore = <<>>
    /\ badgeStore = <<>>
    /\ addrIndex = [a \in Addresses |-> 0]
    /\ req = [p \in Requests |-> IdleSlot]
    /\ response = NoResponse
    /\ isTest = FALSE
    /\ limiter = NoHits
    /\ crypto = NoCall
    /\ bridge = NotCalled
    /\ handled = NothingHandled(FALSE)

RLNext ==
    \/ \E h \in WalletHeaders, p \in Requests, provider \in Providers, a \in Addresses,
                              validProof \in BOOLEAN, d \in ProviderData :
          LimitedSubmit(h, p, provider, a, validProof, d)
    \/ /\ \E p \in Requests, registered \in BOOLEAN, d \in ProviderData :
             ProviderReturn(p, registered, d)
       /\ UNCHANGED <<isTest, handled, limiter, crypto, bridge>>
    \/ (\E p \in Requests : ProviderThrow(p)) /\ UNCHANGED <<isTest, handled, limiter, crypto, bridge>>
    \/ \E p \in Requests, vid \in 1..MaxVer, a \in Addresses :
          LimitedRequestIssuance(p, vid, a)
    \/ (\E p \in Requests : HeightReturn(p)) /\ UNCHANGED <<isTest, handled, limiter, crypto, bridge>>
    \/ (\E p \in Requests : LedgerSuccess(p)) /\ UNCHANGED <<isTest, handled, limiter, crypto, bridge>>
    \/ (\E p \in Requests : LedgerFail(p)) /\ UNCHANGED <<isTest, handled, limiter, crypto, bridge>>

RLSpec == RLInit /\ [][RLNext]_vars

\* the issuance path with the bridge's own steps
BridgeNext ==
    \/ \E b \in BOOLEAN : SetCliInstalled(b)
    \/ /\ \E p \in Requests, provider \in Providers, a \in Addresses,
                              validProof \in BOOLEAN, d \in ProviderData :
             SubmitVerification(p, provider, a, validProof, d)
       /\ UNCHANGED <<isTest, handled, limiter, crypto, bridge>>
    \/ /\ \E p \in Requests, registered \in BOOLEAN, d \in ProviderData :
             ProviderReturn(p, registered, d)
       /\ UNCHANGED <<isTest, handled, limiter, crypto, bridge>>
    \/ /\ \E p \in Requests, vid \in 1..MaxVer, a \in Addresses :
             RequestIssuance(p, vid, a)
       /\ UNCHANGED <<isTest, handled, limiter, crypto, bridge>>
    \/ \E p \in Requests : CallIssueBadgeOnChain(p)
    \/ \E p \in Requests : RefusedFromCache(p)
    \/ \E p \in Requests, timedOut \in BOOLEAN : VersionCheckReturn(p, timedOut)
    \/ \E p \in Requests, exited0 \in BOOLEAN, hasTransactionId \in BOOLEAN,
          ledgerAccepted \in BOOLEAN :
          CliReturn(p, exited0, hasTransactionId, ledgerAccepted)

\* the service outside the test environment after its first request, an
\* accepted liveness submission for a1 sent without a wallet header
GuardInit ==
    /\ calls = 1
    /\ now = 0
    /\ demoMode \in BOOLEAN
    /\ verificationStore = <<NewVerification("a1", "liveness", TRUE, "d1", 0)>>
    /\ badgeStore = <<>>
    /\ addrIndex = [a \in Addresses |-> 0]
    /\ req = [p \in Requests |-> IdleSlot]
    /\ response = VerificationResponse("submit", 200, "OK", 1,
                        generateProofHash("liveness", "a1", "d1", 0),
                        "liveness", defaultValiditySeconds)
    /\ isTest = FALSE
    /\ limiter = [NoHits EXCEPT !.global = 1, !.strict["none"] = 1, !.admitted["a1"] = 1]
    /\ crypto = NoCall
    /\ bridge = NotCalled
    /\ handled = NothingHandled(FALSE)

\* the badge routes as a client reaches them from there: limiters, then the
\* signature middleware, then the handler
GuardNext ==
    \/ \E w \in WalletValues, sig \in SignatureValues, p \in Requests,
          vid \in 1..MaxVer, a \in Addresses :
          GuardedRequestIssuance(w, sig, p, vid, a)
    \/ (\E p \in Requests : HeightReturn(p)) /\ UNCHANGED <<isTest, handled, limiter, crypto, bridge>>
    \/ (\E p \in Requests : LedgerSuccess(p)) /\ UNCHANGED <<isTest, handled, limiter, crypto, bridge>>
    \/ (\E p \in Requests : LedgerFail(p)) /\ UNCHANGED <<isTest, handled, limiter, crypto, bridge>>
    \/ \E w \in WalletValues, sig \in SignatureValues, a \in Addresses :
          GuardedRenew(w, sig, a)

GuardSpec == GuardInit /\ [][GuardNext]_vars

BridgeSpec == Init /\ [][BridgeNext]_vars

\* the error handler in each environment (NODE_ENV development, production or
\* test), given any error
ErrorInit ==
    /\ calls = 0
    /\ now = 0
    /\ demoMode \in BOOLEAN
    /\ verificationStore = <<>>
    /\ badgeStore = <<>>
    /\ addrIndex = [a \in Addresses |-> 0]
    /\ req = [p \in Requests |-> IdleSlot]
    /\ response = NoResponse
    /\ isTest \in BOOLEAN
    /\ limiter = NoHits
    /\ crypto = NoCall
    /\ bridge = NotCalled
    /\ \E isDevelopment \in BOOLEAN :
          /\ ~(isTest /\ isDevelopment)
          /\ handled = NothingHandled(isDevelopment)

ErrorNext == \E e \in Errors : HandleError(e)

ErrorSpec == ErrorInit /\ [][ErrorNext]_vars

\* the badge routes behind the signature middleware
AuthNext ==
    \/ /\ \E p \in Requests, provider \in Providers, a \in Addresses,
                              validProof \in BOOLEAN, d \in ProviderData :
             SubmitVerification(p, provider, a, validProof, d)
       /\ UNCHANGED <<isTest, handled, limiter, crypto, bridge>>
    \/ /\ \E p \in Requests, registered \in BOOLEAN, d \in ProviderData :
             ProviderReturn(p, registered, d)
       /\ UNCHANGED <<isTest, handled, limiter, crypto, bridge>>
    \/ \E w \in WalletValues, sig \in SignatureValues, p \in Requests,
          vid \in 1..MaxVer, a \in Addresses :
          SignedRequestIssuance(w, sig, p, vid, a)
    \/ (\E p \in Requests : HeightReturn(p)) /\ UNCHANGED <<isTest, handled, limiter, crypto, bridge>>
    \/ (\E p \in Requests : LedgerSuccess(p)) /\ UNCHANGED <<isTest, handled, limiter, crypto, bridge>>
    \/ (\E p \in Requests : LedgerFail(p)) /\ UNCHANGED <<isTest, handled, limiter, crypto, bridge>>
    \/ \E w \in WalletValues, sig \in SignatureValues, a \in Addresses :
          SignedRenew(w, sig, a)

AuthSpec == Init /\ [][AuthNext]_vars

\* the hash utilities, called with any admitted arguments
CryptoNext ==
    \/ \E proposalId \in ProposalIds, voterAddress \in AleoAddresses,
          badgeNonce \in BadgeNonces :
          CallCreateVoteNullifier(proposalId, voterAddress, badgeNonce)
    \/ \E provider \in ProviderNames, address \in AleoAddresses,
          verificationData \in VerificationData, timestamp \in 0..MaxTime :
          CallGenerateProofHash(provider, address, verificationData, timestamp)

CryptoSpec == Init /\ [][CryptoNext]_vars

TypeOK ==
    /\ calls \in 0..MaxCalls
    /\ now \in 0..MaxTime
    /\ demoMode \in BOOLEAN
    /\ Len(verificationStore) <= MaxVer
    /\ Len(badgeStore) <= MaxBadge
    /\ \A a \in Addresses : addrIndex[a] \in 0..Len(badgeStore)
    /\ \A p \in Requests : req[p].pc \in {"idle", "awaitProvider", "awaitHeight", "awaitLedger"}

\* ------------------------------------------------------------------------
\* Shorthands used by the properties
\* ------------------------------------------------------------------------
BadgeIds == 1..Len(badgeStore)
VerificationIds == 1..Len(verificationStore)

\* the credentials of an address that hold its uniqueness slot
LiveBadges(a) ==
    {i \in BadgeIds : badgeStore[i].address = a /\ badgeStore[i].status \in {"pending", "active"}}

\* the verified, unexpired verifications of an address
VerifiedNow(a) ==
    {i \in VerificationIds : /\ verificationStore[i].address = a
                             /\ verificationStore[i].status = "verified"
                             /\ verificationStore[i].expiresAt > now}

HoldsActive(a) ==
    \E i \in BadgeIds : badgeStore[i].address = a /\ badgeStore[i].status = "active"

RegistryUnchanged == badgeStore' = badgeStore /\ addrIndex' = addrIndex

\* ------------------------------------------------------------------------
\* C1: at every instant an address has at most one credential that is pending
\* or active, however issuance requests for it interleave.
\* ------------------------------------------------------------------------
C1_AtMostOneLiveCredential ==
    \A a \in Addresses : Cardinality(LiveBadges(a)) <= 1

\* ------------------------------------------------------------------------
\* C2: at every instant an address has at most one verification that is
\* verified and unexpired, however verification submissions for it interleave.
\* ------------------------------------------------------------------------
C2_AtMostOneVerified ==
    \A a \in Addresses : Cardinality(VerifiedNow(a)) <= 1

\* ------------------------------------------------------------------------
\* C3: a submission for an address that has a verified, unexpired record
\* answers with that record's id and proof hash, calls no provider and leaves
\* the verification store unchanged.
\* ------------------------------------------------------------------------
C3_IdempotentSubmit ==
    [][\A p \in Requests, provider \in Providers, a \in Addresses,
          validProof \in BOOLEAN, d \in ProviderData :
          \A i \in VerifiedNow(a) :
              SubmitVerification(p, provider, a, validProof, d) =>
                  /\ response'.op = "submit"
                  /\ response'.id = i
                  /\ response'.proofHash = verificationStore[i].proofHash
                  /\ req' = req
                  /\ verificationStore' = verificationStore]_vars

\* the verification vid authorizes an issuance for address a right now
ValidFor(vid, a) ==
    /\ vid \in VerificationIds
    /\ verificationStore[vid].status = "verified"
    /\ verificationStore[vid].address = a
    /\ ~(verificationStore[vid].expiresAt < now)

\* ------------------------------------------------------------------------
\* C4: a failed ledger submission leaves the request's record failed; a later
\* request for the same address with the same still valid verification, made
\* while the address has no pending or active credential, is not rejected, and
\* its record is active once the ledger accepts it.
\* ------------------------------------------------------------------------
C4_FailureFreesAddress ==
    [][/\ \A p \in Requests :
             LedgerFail(p) => badgeStore'[req[p].badgeId].status = "failed"
       /\ \A p \in Requests, vid \in 1..MaxVer, a \in Addresses :
             ( /\ RequestIssuance(p, vid, a)
               /\ ValidFor(vid, a)
               /\ LiveBadges(a) = {}
               /\ \E i \in BadgeIds : /\ badgeStore[i].address = a
                                      /\ badgeStore[i].status = "failed"
                                      /\ badgeStore[i].proofHash = verificationStore[vid].proofHash )
             => /\ req'[p].pc = "awaitHeight"
                /\ response' = response
       /\ \A p \in Requests :
             LedgerSuccess(p) => /\ badgeStore'[req[p].badgeId].status = "active"
                                 /\ response'.code = 201
                                 /\ response'.id = req[p].badgeId]_vars

\* a retry after a failed issuance has ended active
C4_Witness ==
    \E i, j \in BadgeIds :
        /\ i < j
        /\ badgeStore[i].address = badgeStore[j].address
        /\ badgeStore[i].proofHash = badgeStore[j].proofHash
        /\ badgeStore[i].status = "failed"
        /\ badgeStore[j].status = "active"
        /\ response.op = "requestIssuance" /\ response.code = 201 /\ response.id = j

\* ------------------------------------------------------------------------
\* C5: when every ledger submission eventually returns, every record that is
\* pending is eventually active or failed.
\* ------------------------------------------------------------------------
C5_PendingResolves ==
    \A i \in 1..MaxBadge :
        (i \in BadgeIds /\ badgeStore[i].status = "pending")
            ~> (i \in BadgeIds /\ badgeStore[i].status \in {"active", "failed"})

\* a record that was written pending has been resolved to failed by its request
C5_Witness ==
    /\ response.op = "requestIssuance"
    /\ response.code = 500
    /\ response.id \in BadgeIds
    /\ badgeStore[response.id].status = "failed"

\* ------------------------------------------------------------------------
\* C6: while an address holds an active credential, every issuance request
\* for it, whatever its verificationId, is answered 409 CONFLICT and changes
\* nothing in the badge store.
\* ------------------------------------------------------------------------
C6_ActiveBlocksIssuance ==
    [][\A p \in Requests, vid \in 1..MaxVer, a \in Addresses :
          (RequestIssuance(p, vid, a) /\ HoldsActive(a))
          => /\ response'.op = "requestIssuance"
             /\ response'.code = 409
             /\ response'.kind = "CONFLICT"
             /\ RegistryUnchanged
             /\ req' = req]_vars

\* a request for an address that holds an active credential was answered 409
C6_Witness ==
    /\ response.op = "requestIssuance"
    /\ response.code = 409
    /\ \E a \in Addresses : HoldsActive(a)

\* ------------------------------------------------------------------------
\* C7 as stated: an issuance request with an unknown verificationId is
\* answered 404 NOT_FOUND and changes no record, also when the address holds an
\* active credential.
\* ------------------------------------------------------------------------
C7_UnknownAlwaysNotFound ==
    [][\A p \in Requests, vid \in 1..MaxVer, a \in Addresses :
          (RequestIssuance(p, vid, a) /\ vid \notin VerificationIds)
          => /\ response'.op = "requestIssuance"
             /\ response'.code = 404
             /\ RegistryUnchanged
             /\ req' = req]_vars

\* C7 as amended: an issuance request with an unknown verificationId changes no
\* record; it is answered 404 NOT_FOUND when the address holds no active
\* credential and 409 CONFLICT when it does.
C7_UnknownNotFoundUnlessConflict ==
    [][\A p \in Requests, vid \in 1..MaxVer, a \in Addresses :
          (RequestIssuance(p, vid, a) /\ vid \notin VerificationIds)
          => /\ response'.op = "requestIssuance"
             /\ response'.code = (IF HoldsActive(a) THEN 409 ELSE 404)
             /\ response'.kind = (IF HoldsActive(a) THEN "CONFLICT" ELSE "NOT_FOUND")
             /\ RegistryUnchanged
             /\ req' = req]_vars

\* a request naming a verification that is not in the store was answered 404
C7_Witness ==
    /\ response.op = "requestIssuance"
    /\ response.code = 404
    /\ response.id \notin VerificationIds

\* the verification vid must not authorize an issuance for address a
Unusable(vid, a) ==
    /\ vid \in VerificationIds
    /\ \/ verificationStore[vid].address # a
       \/ verificationStore[vid].status # "verified"
       \/ verificationStore[vid].expiresAt < now

\* ------------------------------------------------------------------------
\* C8 as stated: an issuance request whose verification is for another
\* address, is not verified, or is past its expiry is answered 400, creates or
\* changes no record and makes no ledger call.
\* ------------------------------------------------------------------------
C8_UnusableAlwaysValidation ==
    [][\A p \in Requests, vid \in 1..MaxVer, a \in Addresses :
          (RequestIssuance(p, vid, a) /\ Unusable(vid, a))
          => /\ response'.op = "requestIssuance"
             /\ response'.code = 400
             /\ RegistryUnchanged
             /\ req' = req]_vars

\* C8 as amended: such a request creates or changes no record and makes no
\* ledger call; it is answered 400 when the address holds no active credential
\* and 409 CONFLICT when it does.
C8_UnusableValidationUnlessConflict ==
    [][\A p \in Requests, vid \in 1..MaxVer, a \in Addresses :
          (RequestIssuance(p, vid, a) /\ Unusable(vid, a))
          => /\ response'.op = "requestIssuance"
             /\ response'.code = (IF HoldsActive(a) THEN 409 ELSE 400)
             /\ response'.kind = (IF HoldsActive(a) THEN "CONFLICT" ELSE "VALIDATION_ERROR")
             /\ RegistryUnchanged
             /\ req' = req]_vars

\* a request was answered 400 for a verification that is past its expiry and
\* whose status has not been flipped to expired
C8_Witness ==
    /\ response.op = "requestIssuance"
    /\ response.code = 400
    /\ response.id \in VerificationIds
    /\ verificationStore[response.id].status = "verified"
    /\ verificationStore[response.id].expiresAt < now

\* the status changes of a CredentialRecord that the state machine allows
AllowedTransitions ==
    {<<"none", "pending">>, <<"pending", "active">>, <<"pending", "failed">>,
     <<"active", "expired">>, <<"active", "revoked">>, <<"expired", "active">>,
     <<"failed", "pending">>}

\* ------------------------------------------------------------------------
\* C9: every status change of a CredentialRecord is one of the allowed ones
\* (in demo mode none -> pending -> active is one handler step); active ->
\* expired happens only past expiresAt, expired -> active only by renew, and a
\* pending or failed record becomes active only by the ledger confirmation of
\* its own request; revoked is never left.
\* ------------------------------------------------------------------------
C9_OnlyAllowedTransitions ==
    [][\A i \in 1..Len(badgeStore') :
          LET old == IF i \in BadgeIds THEN badgeStore[i].status ELSE "none"
              new == badgeStore'[i].status
          IN \/ old = new
             \/ /\ \/ <<old, new>> \in AllowedTransitions
                   \/ demoMode /\ <<old, new>> = <<"none", "active">>
                /\ <<old, new>> = <<"active", "expired">> => badgeStore[i].expiresAt < now
                /\ <<old, new>> = <<"expired", "active">> => \E a \in Addresses : Renew(a)
                /\ (old \in {"pending", "failed"} /\ new = "active")
                      => \E p \in Requests : LedgerSuccess(p) /\ req[p].badgeId = i]_vars

\* ------------------------------------------------------------------------
\* C10: a request that is suspended in a ledger call (the height read or the
\* issuance submission) has already written its record to the badge store.
\* ------------------------------------------------------------------------
C10_RecordWrittenBeforeLedgerCall ==
    \A p \in Requests :
        req[p].pc \in {"awaitHeight", "awaitLedger"}
            => /\ req[p].badgeId \in BadgeIds
               /\ badgeStore[req[p].badgeId].address = req[p].address

\* ------------------------------------------------------------------------
\* C11: every stored record that is active carries a transaction id (the one
\* the ledger returned for its issuance).
\* ------------------------------------------------------------------------
C11_ActiveHasTransactionId ==
    \A i \in BadgeIds :
        badgeStore[i].status = "active" => badgeStore[i].transactionId # "none"

\* ------------------------------------------------------------------------
\* C12: a successful renew leaves the record's nonce, id, address, issuer and
\* proofHash as they were, sets its status to active and its expiresAt to now
\* plus the default validity; and no step ever changes the nonce of a record
\* that exists.
\* ------------------------------------------------------------------------
C12_RenewKeepsIdentity ==
    [][ /\ \A a \in Addresses :
             ( /\ Renew(a)
               /\ addrIndex[a] # 0
               /\ badgeStore[addrIndex[a]].status # "revoked" )
             => LET old  == badgeStore[addrIndex[a]]
                    new  == badgeStore'[addrIndex[a]] IN
                /\ new.nonce = old.nonce
                /\ new.id = old.id
                /\ new.address = old.address
                /\ new.issuer = old.issuer
                /\ new.proofHash = old.proofHash
                /\ new.status = "active"
                /\ new.expiresAt = now + defaultValiditySeconds
                /\ response'.op = "renew" /\ response'.code = 200
        /\ \A i \in BadgeIds :
             /\ i \in 1..Len(badgeStore')
             /\ badgeStore'[i].nonce = badgeStore[i].nonce ]_vars

\* an expired record has been renewed: it is active again, valid past now,
\* and still carries the nonce drawn at its creation
C12_Witness ==
    /\ response.op = "renew" /\ response.code = 200
    /\ now > defaultValiditySeconds
    /\ badgeStore[response.id].status = "active"
    /\ badgeStore[response.id].expiresAt = now + defaultValiditySeconds
    /\ badgeStore[response.id].nonce \in {generateNonce(e) : e \in Entropy}

\* ------------------------------------------------------------------------
\* C13: renew answers NotFound when the address has no record and Validation
\* when its record is revoked, and in both cases the Credential Registry is
\* left as it was.
\* ------------------------------------------------------------------------
C13_RenewRefusals ==
    [][\A a \in Addresses :
          /\ (Renew(a) /\ addrIndex[a] = 0)
                => /\ response'.code = 404 /\ response'.kind = "NOT_FOUND"
                   /\ RegistryUnchanged
          /\ ( /\ Renew(a)
               /\ addrIndex[a] # 0
               /\ badgeStore[addrIndex[a]].status = "revoked" )
                => /\ response'.code = 400 /\ response'.kind = "VALIDATION_ERROR"
                   /\ RegistryUnchanged ]_vars

\* a renewal of a revoked record has been refused and the record is still revoked
C13_Witness ==
    /\ response.op = "renew" /\ response.code = 400
    /\ response.id \in BadgeIds
    /\ badgeStore[response.id].status = "revoked"

\* ------------------------------------------------------------------------
\* C14: reading the status of an unknown verification id answers 404 and
\* changes nothing; reading a known id changes its status only from verified
\* to expired and only past expiresAt, and reports the stored status.
\* ------------------------------------------------------------------------
C14_StatusReadFlipsOnlyVerified ==
    [][\A id \in 1..MaxVer :
          GetVerificationStatus(id) =>
              IF id \notin VerificationIds
              THEN response'.code = 404 /\ verificationStore' = verificationStore
              ELSE /\ response'.kind = verificationStore'[id].status
                   /\ \A j \in VerificationIds :
                         \/ verificationStore'[j] = verificationStore[j]
                         \/ /\ j = id
                            /\ verificationStore[j].status = "verified"
                            /\ verificationStore[j].expiresAt < now
                            /\ verificationStore'[j] =
                                  [verificationStore[j] EXCEPT !.status = "expired"]]_vars

\* ------------------------------------------------------------------------
\* C15: at the moment a CredentialRecord is written, some VerificationRecord
\* with the same proof hash and address is verified and not past its expiry.
\* ------------------------------------------------------------------------
C15_WrittenUnderValidVerification ==
    [][\A p \in Requests :
          HeightReturn(p) =>
              LET c == badgeStore'[Len(badgeStore')]
              IN \E v \in VerificationIds :
                    /\ verificationStore[v].proofHash = c.proofHash
                    /\ verificationStore[v].address = c.address
                    /\ verificationStore[v].status = "verified"
                    /\ ~(verificationStore[v].expiresAt < now)]_vars

\* the credentials that were copied from verification v and are not failed
CredentialsOf(v) ==
    {i \in BadgeIds : /\ badgeStore[i].proofHash = verificationStore[v].proofHash
                      /\ badgeStore[i].address = verificationStore[v].address
                      /\ badgeStore[i].status # "failed"}

\* ------------------------------------------------------------------------
\* C16: a VerificationRecord authorizes at most one credential: at every
\* instant at most one CredentialRecord copied from it is in a status other
\* than failed.
\* ------------------------------------------------------------------------
C16_OneCredentialPerVerification ==
    \A v \in VerificationIds : Cardinality(CredentialsOf(v)) <= 1

C18_StrictBudgetPerAddress ==
    ~isTest => \A a \in Addresses : limiter.admitted[a] <= strictMax

\* ------------------------------------------------------------------------
\* C19: a failed ledger submission is reported to the caller as an external
\* service failure (502), not as 500 INTERNAL_ERROR.
\* ------------------------------------------------------------------------
C19_LedgerFailureIsExternal ==
    [][\A p \in Requests :
          LedgerFail(p) => /\ response'.code = 502
                           /\ response'.kind # "INTERNAL_ERROR"]_vars

\* the latest response reports a failed provider call
ProviderFailureReported ==
    /\ response.op = "submit"
    /\ response.code = 400
    /\ response.message \in {providerFailureMessage(pr) : pr \in Providers}

\* ------------------------------------------------------------------------
\* C20: a provider call that throws or times out ends the submission with an
\* error and stores nothing; a submission for an address without a verified,
\* unexpired record calls the provider afresh, and a positive answer then
\* stores a verified record.
\* ------------------------------------------------------------------------
C20_ProviderFailureStoresNothing ==
    [][/\ \A p \in Requests :
             ProviderThrow(p) => /\ response'.code = 400
                                 /\ response'.kind = "VALIDATION_ERROR"
                                 /\ ProviderFailureReported'
                                 /\ verificationStore' = verificationStore
                                 /\ RegistryUnchanged
       /\ \A p \in Requests, provider \in Providers \ {"liveness"}, a \in Addresses,
             validProof \in BOOLEAN, d \in ProviderData :
             ( /\ SubmitVerification(p, provider, a, validProof, d)
               /\ ~demoMode
               /\ VerifiedNow(a) = {} )
             => /\ req'[p].pc = "awaitProvider"
                /\ req'[p].address = a
                /\ verificationStore' = verificationStore
       /\ \A p \in Requests, d \in ProviderData :
             ProviderReturn(p, TRUE, d)
             => /\ Len(verificationStore') = Len(verificationStore) + 1
                /\ verificationStore'[Len(verificationStore')].status = "verified"
                /\ verificationStore'[Len(verificationStore')].address = req[p].address
                /\ response'.code = 200]_vars

\* a provider failure was reported, nothing was stored, and a resubmission is
\* waiting for the provider
C20_Witness ==
    /\ ProviderFailureReported
    /\ verificationStore = <<>>
    /\ \E p \in Requests : req[p].pc = "awaitProvider"

\* ------------------------------------------------------------------------
\* C21: the happy path. From empty registries an accepted submission for an
\* address stores a verified record; an issuance request with that record and
\* address is admitted, its credential is written pending (active at once in
\* demo mode, where no ledger is called) and an accepting ledger makes it
\* active and answers 201; a status read of an active, unexpired credential
\* then reports a badge with status active.
\* ------------------------------------------------------------------------
C21_HappyPath ==
    [][/\ verificationStore = <<>>
          => /\ \A p \in Requests, d \in ProviderData :
                   ProviderReturn(p, TRUE, d)
                   => /\ Len(verificationStore') = 1
                      /\ verificationStore'[1].status = "verified"
                      /\ verificationStore'[1].address = req[p].address
                      /\ response'.code = 200 /\ response'.id = 1
             /\ \A p \in Requests, provider \in Providers, a \in Addresses,
                   d \in ProviderData :
                   ( /\ provider = "liveness" \/ demoMode
                     /\ SubmitVerification(p, provider, a, TRUE, d) )
                   => /\ Len(verificationStore') = 1
                      /\ verificationStore'[1].status = "verified"
                      /\ verificationStore'[1].address = a
                      /\ response'.code = 200 /\ response'.id = 1
       /\ badgeStore = <<>>
          => /\ \A p \in Requests, vid \in 1..MaxVer, a \in Addresses :
                   (ValidFor(vid, a) /\ RequestIssuance(p, vid, a))
                   => /\ req'[p].pc = "awaitHeight"
                      /\ req'[p].address = a /\ req'[p].vid = vid
             /\ \A p \in Requests :
                   HeightReturn(p)
                   => /\ Len(badgeStore') = 1
                      /\ badgeStore'[1].address = req[p].address
                      /\ addrIndex'[req[p].address] = 1
                      /\ badgeStore'[1].status = IF demoMode THEN "active" ELSE "pending"
                      /\ demoMode => response'.code = 201 /\ response'.id = 1
       /\ \A p \in Requests :
             LedgerSuccess(p)
             => /\ badgeStore'[req[p].badgeId].status = "active"
                /\ response'.op = "requestIssuance" /\ response'.code = 201
                /\ response'.id = req[p].badgeId
       /\ \A a \in Addresses :
             ( /\ addrIndex[a] # 0
               /\ badgeStore[addrIndex[a]].status = "active"
               /\ ~(badgeStore[addrIndex[a]].expiresAt < now)
               /\ GetBadgeStatus(a) )
             => /\ response'.code = 200
                /\ response'.id # 0
                /\ response'.kind = "active" ]_vars

\* the three requests of the happy path have been served, with a ledger call:
\* one verified record, one active credential, and the status read says active
C21_Witness ==
    /\ ~demoMode
    /\ calls = 3
    /\ Len(verificationStore) = 1 /\ verificationStore[1].status = "verified"
    /\ Len(badgeStore) = 1 /\ badgeStore[1].status = "active"
    /\ badgeStore[1].address = verificationStore[1].address
    /\ response.op = "badgeStatus" /\ response.kind = "active" /\ response.id = 1

\* ------------------------------------------------------------------------
\* C22: every 201 answer of request-issuance carries a leo_input whose
\* recipient is the requested address and whose proof_hash is the proof hash
\* of the verification that authorized the credential.
\* ------------------------------------------------------------------------
C22_IssuedCarriesLeoInput ==
    (response.op = "requestIssuance" /\ response.code = 201)
        => /\ response.leoInput # NoLeoInput
           /\ response.leoInput.recipient = badgeStore[response.id].address
           /\ response.leoInput.proof_hash = badgeStore[response.id].proofHash

\* ------------------------------------------------------------------------
\* C23: createVoteNullifier is deterministic, and for admitted arguments two
\* tuples (proposalId, voterAddress, badgeNonce) that differ in any component
\* are hashed from different strings.
\* ------------------------------------------------------------------------
C23_NullifierDeterministicAndSensitive ==
    crypto.fn = "createVoteNullifier"
        => /\ crypto.out = createVoteNullifier(crypto.args[1], crypto.args[2], crypto.args[3])
           /\ \A proposalId \in ProposalIds, voterAddress \in AleoAddresses,
                 badgeNonce \in BadgeNonces :
                 <<proposalId, voterAddress, badgeNonce>> # crypto.args
                 => /\ nullifierInput(proposalId, voterAddress, badgeNonce) # crypto.input
                    /\ createVoteNullifier(proposalId, voterAddress, badgeNonce) # crypto.out

\* a nullifier was computed for a proposal id of two digits and a nonce of two
\* hex digits, next to which one-digit ids and one-digit nonces exist
C23_Witness ==
    /\ crypto.fn = "createVoteNullifier"
    /\ crypto.args[1] >= 10
    /\ crypto.args[3] = "a1field"
    /\ crypto.input = "1" \o toString(crypto.args[1] - 10) \o "|" \o crypto.args[2] \o "|a1field"

\* ------------------------------------------------------------------------
\* C24: the string hashed for a proof hash is never the string hashed for a
\* vote nullifier, whatever admitted address, verification data and nonce the
\* callers choose.
\* ------------------------------------------------------------------------
C24_DomainSeparation ==
    /\ crypto.fn = "generateProofHash"
          => \A proposalId \in ProposalIds, voterAddress \in AleoAddresses,
                badgeNonce \in BadgeNonces :
                nullifierInput(proposalId, voterAddress, badgeNonce) # crypto.input
    /\ crypto.fn = "createVoteNullifier"
          => \A provider \in ProviderNames, address \in AleoAddresses,
                verificationData \in VerificationData, timestamp \in 0..MaxTime :
                proofHashData(provider, address, verificationData, timestamp) # crypto.input

\* a proof hash was computed over verification data that is itself shaped like
\* the input of a nullifier
C24_Witness ==
    /\ crypto.fn = "generateProofHash"
    /\ crypto.args[3] \in {nullifierInput(i, a, n) :
                              i \in ProposalIds, a \in AleoAddresses, n \in BadgeNonces}

\* ------------------------------------------------------------------------
\* C25: the nonce of a credential comes from the random source alone. Whatever
\* verification id and address an admitted issuance request names, its nonce
\* is generateNonce of the bytes drawn, and the record written carries that
\* nonce; so requests that draw the same bytes get the same nonce.
\* ------------------------------------------------------------------------
C25_NonceFromEntropyOnly ==
    [][/\ \A p \in Requests, vid \in 1..MaxVer, a \in Addresses :
             (RequestIssuance(p, vid, a) /\ req'[p].pc = "awaitHeight")
             => \E bytes \in Entropy : req'[p].nonce = generateNonce(bytes)
       /\ \A p \in Requests :
             HeightReturn(p)
             => /\ badgeStore'[Len(badgeStore')].nonce = req[p].nonce
                /\ \A i \in BadgeIds :
                      badgeStore[i].nonce[1] = req[p].nonce[1]
                      => badgeStore'[Len(badgeStore')].nonce = badgeStore[i].nonce ]_vars

\* a credential authorized by the second verification, for its address, holds
\* the nonce of the bytes drawn
C25_Witness ==
    /\ Len(verificationStore) = 2
    /\ verificationStore[1].address # verificationStore[2].address
    /\ \E i \in BadgeIds :
          /\ badgeStore[i].address = verificationStore[2].address
          /\ badgeStore[i].proofHash = verificationStore[2].proofHash
          /\ \E bytes \in Entropy : badgeStore[i].nonce = generateNonce(bytes)

\* C26: the ledger bridge keeps no state between calls: a call made while the
\* CLI is installed fails only when the CLI run for that very call (the version
\* check or the execute command) answered with a failure, whatever happened to
\* earlier calls
C26_EarlierFailureChangesNothing ==
    [][\A p \in Requests :
          (bridge.cliInstalled /\ req[p].pc \in {"awaitHeight", "awaitLedger"}
             /\ req'[p].pc = "idle" /\ response'.code = 500)
          => bridge.at[p] \in {"version", "exec"}]_vars

\* C27: outside demo mode a credential record for address A is created (the
\* request is admitted to issuance) or renewed only by a request whose
\* authenticated X-Wallet-Address is A
C27_OnlyTheOwnerIssuesOrRenews ==
    [][\A w \in WalletValues, sig \in SignatureValues, a \in Addresses :
          /\ \A p \in Requests, vid \in 1..MaxVer :
                (~demoMode /\ req[p].pc = "idle" /\ req'[p].pc = "awaitHeight"
                   /\ SignedRequestIssuance(w, sig, p, vid, a))
                => w = a
          /\ (~demoMode /\ badgeStore' # badgeStore /\ SignedRenew(w, sig, a))
                => w = a]_vars

\* C28: the per-address index never hides a live credential: whenever some
\* record of address a is active, the record under the key addr:a (the one
\* badge getStatus and getBadgeByAddress return) is active or expired
C28_IndexShowsTheLiveCredential ==
    \A a \in Addresses :
        HoldsActive(a) =>
            /\ addrIndex[a] # 0
            /\ badgeStore[addrIndex[a]].status \in {"active", "expired"}

\* C29: the answer for an already-verified address returns the stored record
\* unchanged: verification id, proof hash, expiry and provider are those of the
\* stored record, also when the repeated submission uses another provider's
\* endpoint
C29_ShortCircuitReturnsStoredRecord ==
    [][(response'.op = "submit" /\ response'.kind = "ALREADY_VERIFIED"
          /\ calls' = calls + 1)
       => /\ verificationStore' = verificationStore
          /\ response'.id \in VerificationIds
          /\ LET v == verificationStore[response'.id] IN
                /\ response'.proofHash = v.proofHash
                /\ response'.expiresAt = v.expiresAt
                /\ response'.provider = v.provider]_vars

\* ------------------------------------------------------------------------
\* Independence of addresses
\* ------------------------------------------------------------------------
\* the records of one address, with their ids
RecordsOf(store, a) ==
    {<<i, store[i]>> : i \in {j \in 1..Len(store) : store[j].address = a}}

\* a registry as it would be if no other address had ever been served
Alone(store, a) == SelectSeq(store, LAMBDA r : r.address = a)

\* the id of a record of a in that registry; an id of no record of a names
\* nothing there
idAlone(store, a, id) ==
    IF id \in 1..Len(store) /\ store[id].address = a
    THEN Cardinality({j \in 1..id : store[j].address = a})
    ELSE IF id = 0 THEN 0 ELSE Len(Alone(store, a)) + 1

OfAnother(store, a, id) == id \in 1..Len(store) /\ store[id].address # a

\* a step of a handler serving a request for address a: a verification
\* submission, requestIssuance, badge getStatus or renew, with the later
\* segments of the same handler call
OperationOn(a) ==
    \/ \E p \in Requests, provider \in Providers, validProof \in BOOLEAN, d \in ProviderData :
          SubmitVerification(p, provider, a, validProof, d)
    \/ \E p \in Requests :
          /\ req[p].address = a
          /\ \/ \E registered \in BOOLEAN, d \in ProviderData : ProviderReturn(p, registered, d)
             \/ ProviderThrow(p)
             \/ HeightReturn(p)
             \/ LedgerSuccess(p)
             \/ LedgerFail(p)
    \/ \E p \in Requests, vid \in 1..MaxVer : RequestIssuance(p, vid, a)
    \/ GetBadgeStatus(a)
    \/ Renew(a)

\* an operation on a leaves every record, and the index entry, of any other
\* address as it was
OthersUntouched ==
    \A a, b \in Addresses :
        (/\ a # b
         /\ \/ RecordsOf(verificationStore', b) # RecordsOf(verificationStore, b)
            \/ RecordsOf(badgeStore', b) # RecordsOf(badgeStore, b)
            \/ addrIndex'[b] # addrIndex[b])
        => ~OperationOn(a)

\* the checks that decide the outcome of a submission, a status read and a
\* renewal for a give the same answer in the registries of a alone
LookupsIndependent ==
    \A a \in Addresses :
        LET vs  == Alone(verificationStore, a)
            bs  == Alone(badgeStore, a)
            idx == [x \in Addresses |-> idAlone(badgeStore, a, addrIndex[x])]
        IN /\ idAlone(verificationStore, a, existingVerification(verificationStore, a, now))
                 = existingVerification(vs, a, now)
           /\ addrIndex[a] # 0 => badgeStore[addrIndex[a]].address = a
           /\ renewCheck(badgeStore, addrIndex, a) = renewCheck(bs, idx, a)
           /\ addrIndex[a] # 0 => badgeStore[addrIndex[a]] = bs[idx[a]]

\* C30 (as stated): operations on different addresses are independent: an
\* operation for a never creates or modifies a record of another address, and
\* its registry outcome is the one it would have if the other addresses had no
\* records at all
C30_AddressesIndependent ==
    /\ [][OthersUntouched]_vars
    /\ [](/\ LookupsIndependent
          /\ \A a \in Addresses, vid \in 1..MaxVer :
                issuanceCheck(badgeStore, verificationStore, vid, a, now)
                   = issuanceCheck(Alone(badgeStore, a), Alone(verificationStore, a),
                                   idAlone(verificationStore, a, vid), a, now))

\* C30 (amended): as above, except that a requestIssuance naming the
\* verification record of another address is refused as Validation where it
\* would be refused as NotFound if that record did not exist (Conflict in
\* both cases when a holds an active credential)
C30_IndependentButForNamedVerification ==
    /\ [][OthersUntouched]_vars
    /\ [](/\ LookupsIndependent
          /\ \A a \in Addresses, vid \in 1..MaxVer :
                LET code  == issuanceCheck(badgeStore, verificationStore, vid, a, now)
                    alone == issuanceCheck(Alone(badgeStore, a), Alone(verificationStore, a),
                                           idAlone(verificationStore, a, vid), a, now)
                IN IF OfAnother(verificationStore, a, vid)
                   THEN /\ alone \in {409, 404}
                        /\ code = IF alone = 409 THEN 409 ELSE 400
                   ELSE code = alone)

\* both addresses have verification records, and the latest issuance request,
\* made for a1, named the verification of the other address and was refused
C30_Witness ==
    /\ \E i \in VerificationIds : verificationStore[i].address = "a2"
    /\ \E i \in VerificationIds : verificationStore[i].address = "a1"
    /\ response.op = "requestIssuance"
    /\ response.code = 400
    /\ OfAnother(verificationStore, "a1", response.id)

\* C31: the local registry never contradicts a confirmed ledger issuance: a
\* record whose issuance transition the ledger accepted is never failed, and
\* no further issuance transition is submitted for an address that has an
\* accepted one
C31_LedgerWins ==
    /\ [](\A id \in bridge.accepted : badgeStore[id].status # "failed")
    /\ [][\A p \in Requests :
             (bridge.at[p] # "exec" /\ bridge'.at[p] = "exec")
             => ~\E id \in bridge.accepted : badgeStore[id].address = req'[p].address]_vars

\* ------------------------------------------------------------------------
\* Who reaches the badge handlers
\* ------------------------------------------------------------------------
\* the request carries both headers, a well-formed wallet address and a
\* signature verifySignature accepts
Authenticated(w, sig) ==
    /\ w # NoAddress
    /\ sig # ""
    /\ w \in Addresses
    /\ verifySignature(w, "body", sig)

\* the step answers 401, or 400 for a malformed address, and changes nothing
RefusedUnauthenticated(op, w, sig) ==
    /\ response'.op = op
    /\ response'.code = IF w # NoAddress /\ sig # "" /\ w \notin Addresses THEN 400 ELSE 401
    /\ calls' = calls
    /\ req' = req
    /\ verificationStore' = verificationStore
    /\ RegistryUnchanged

\* the step answers 429 and changes nothing
RefusedRateLimited(op) ==
    /\ response'.op = op
    /\ response'.code = 429
    /\ response'.kind = "RATE_LIMITED"
    /\ calls' = calls
    /\ req' = req
    /\ verificationStore' = verificationStore
    /\ RegistryUnchanged

\* C32 (as stated): outside demo mode the request-issuance and renew handlers
\* run only for authenticated requests, every other request is answered 401
\* (400 for a malformed address) and leaves the registries unchanged; in demo
\* mode every request reaches the handler
C32_OnlyAuthenticatedReachHandlers ==
    [][\A w \in WalletValues, sig \in SignatureValues, a \in Addresses :
          /\ \A p \in Requests, vid \in 1..MaxVer :
                GuardedRequestIssuance(w, sig, p, vid, a)
                => IF demoMode \/ Authenticated(w, sig)
                   THEN RequestIssuance(p, vid, a)
                   ELSE RefusedUnauthenticated("requestIssuance", w, sig)
          /\ GuardedRenew(w, sig, a)
                => IF demoMode \/ Authenticated(w, sig)
                   THEN Renew(a)
                   ELSE RefusedUnauthenticated("renew", w, sig)]_vars

\* C32 (amended): the same for every request the rate limiters let through; a
\* request they refuse is answered 429 and changes nothing, whatever its
\* headers and also in demo mode
C32_OnlyAuthenticatedPassTheLimiters ==
    [][\A w \in WalletValues, sig \in SignatureValues, a \in Addresses :
          /\ \A p \in Requests, vid \in 1..MaxVer :
                GuardedRequestIssuance(w, sig, p, vid, a)
                => \/ RefusedRateLimited("requestIssuance")
                   \/ IF demoMode \/ Authenticated(w, sig)
                      THEN RequestIssuance(p, vid, a)
                      ELSE RefusedUnauthenticated("requestIssuance", w, sig)
          /\ GuardedRenew(w, sig, a)
                => \/ RefusedRateLimited("renew")
                   \/ IF demoMode \/ Authenticated(w, sig)
                      THEN Renew(a)
                      ELSE RefusedUnauthenticated("renew", w, sig)]_vars

\* outside demo mode an authenticated request has had a credential issued, and
\* the latest request, a renewal with a short signature, was answered 401
C32_Witness ==
    /\ ~demoMode
    /\ \E i \in BadgeIds : badgeStore[i].status = "active"
    /\ response.op = "renew"
    /\ response.code = 401
    /\ response.kind = "SIGNATURE_MISMATCH"

\* ------------------------------------------------------------------------
\* Error responses
\* ------------------------------------------------------------------------
\* the latest error response has a kind and a message, and shows the stack
\* only in development mode
KindMessageNoStack ==
    /\ handled.res.success = FALSE
    /\ handled.res.code # ""
    /\ handled.res.error # ""
    /\ "stack" \in handled.res.details => handled.isDevelopment
    /\ ~handled.isDevelopment => "stack" \notin handled.res.details

====
